---- MODULE Spec2Model ----
(***************************************************************************)
(* The InfluxDB v2 output's HTTP delivery client                           *)
(* (plugins/outputs/influxdb_v2/http.go): the retry gate, the per-bucket   *)
(* batching and on-demand bucket creation of Write, the status-code table  *)
(* of writeBatch and the back-off computation of getRetryDuration.         *)
(*                                                                         *)
(* Time is counted in whole seconds (now, retryTime).  The back-off        *)
(* arithmetic of getRetryDuration is done in units of 1/BackoffDenominator *)
(* of a second, in which retryCount^2/40 s is the integer retryCount^2, so *)
(* that the float computation and its truncation are exact.                *)
(*                                                                         *)
(* An HTTP round trip is the only suspension point of the client: every    *)
(* action runs from the arrival of one response (or from the call of       *)
(* Write) to the next request being issued (or to the return of Write).    *)
(*                                                                         *)
(* Spec is the client with one Write call at a time; SpecLive adds a clock *)
(* that keeps advancing; SpecRouting feeds it batches of distinguishable   *)
(* metrics; SpecConcurrent has two unsynchronized callers of Write, whose  *)
(* reads and writes of the retry state interleave; SpecBackoff runs the    *)
(* throttle branch from any number of consecutive throttles.               *)
(***************************************************************************)
EXTENDS Integers, Sequences, FiniteSets, TLC

\* ---------------------------------------------------------------- bounds
MaxMetrics == 2      \* longest input batch handed to Write
MaxRetryCount == 2   \* no new Write call is started once retryCount reaches it
MaxTime == 60        \* the clock stops advancing past this instant (seconds)
MaxThrottles == 50   \* longest run of consecutive throttles the back-off is computed for

\* ------------------------------------------------------- program constants
defaultMaxWait == 60
BackoffDenominator == 40
errStringBucketNotFound == "not found: bucket"

\* The configured default bucket (HTTPConfig.Bucket) and routing tag name.
Bucket == "default"
RoutingTag == "bucket"
TagValues == {"b1"}
Buckets == {Bucket} \cup TagValues

Min(a, b) == IF a < b THEN a ELSE b
Max(a, b) == IF a > b THEN a ELSE b

\* --------------------------------------------------------------- metrics
\* A metric is its name, its tag map and its fields; the routing tag is
\* present or absent.
NoTags == [t \in {} |-> ""]
Fields == [usage |-> "f"]
MetricsOf(names, tagMaps) ==
    {[name |-> n, tags |-> t, fields |-> Fields] : n \in names, t \in tagMaps}
Metrics ==
    MetricsOf({"cpu"}, {NoTags} \cup {[t \in {RoutingTag} |-> v] : v \in TagValues})
BatchesOf(ms) == UNION {[1..n -> ms] : n \in 0..MaxMetrics}
Batches == BatchesOf(Metrics)

GetTag(metric, key) ==
    IF key \in DOMAIN metric.tags
    THEN [ok |-> TRUE, value |-> metric.tags[key]]
    ELSE [ok |-> FALSE, value |-> ""]

\* RemoveTag leaves the name, the other tags and the fields.
RemoveTag(metric, key) ==
    [metric EXCEPT !.tags = [t \in (DOMAIN metric.tags) \ {key} |-> metric.tags[t]]]

\* ------------------------------------------------------------- responses
StatusSuccessOnly204 == {204}
StatusSuccess == {204, 200, 201, 202, 206, 207, 208}
StatusDrop == {400, 413, 422, 406}
StatusUnauthorized == {401, 403}
StatusThrottleAnd500 == {429, 503, 502, 504, 500}
StatusThrottle == {429, 503, 502, 504}
\* The statuses the server answers a write with.
WriteStatuses ==
    {200, 201, 202, 204, 206, 207, 208, 400, 401, 403, 404, 406, 409, 413,
     422, 429, 500, 501, 502, 503, 504}

\* The response body: not JSON, a JSON error body, or a JSON error body whose
\* message holds the bucket-not-found signature.
Bodies == {"nojson", "json", "jsonBucketNotFound"}

\* The Retry-After header, its value in 1/BackoffDenominator seconds:
\* absent, present but unparseable, 0.5 s, 5 s, 70 s.
NoRetryAfter == [set |-> FALSE, parses |-> FALSE, value |-> 0]
RetryAfterHeaders ==
    {NoRetryAfter, [set |-> TRUE, parses |-> FALSE, value |-> 0]}
        \cup {[set |-> TRUE, parses |-> TRUE, value |-> v] : v \in {20, 200, 2800}}

TransportError == [kind |-> "transport"]
Response(s, b, h) == [kind |-> "resp", status |-> s, body |-> b, retryAfter |-> h]

\* The write responses: a transport failure; every status with a body that
\* is not JSON and with one that holds the bucket-not-found signature; a plain
\* JSON error body on the statuses whose description is read; every header
\* on the statuses that read it and on some that do not.
WriteResponses ==
    {TransportError}
        \cup {Response(s, b, NoRetryAfter) :
                s \in WriteStatuses, b \in {"nojson", "jsonBucketNotFound"}}
        \cup {Response(s, "json", NoRetryAfter) : s \in {400, 401, 404, 409, 500, 501}}
        \cup {Response(s, "nojson", h) :
                s \in {429, 502, 503, 504, 204, 400, 404, 500}, h \in RetryAfterHeaders}

\* resp.Status is the status line; its first character is the hundreds digit.
StatusSecondDigit(status) == (status \div 10) % 10
StatusFirstDigit(status) == status \div 100

\* desc: the decoded error body, or resp.Status when the body does not decode.
Desc(resp) ==
    IF resp.body = "nojson" THEN "status line"
    ELSE IF resp.body = "jsonBucketNotFound" THEN errStringBucketNotFound
    ELSE "code: message"

\* The decision table of writeBatch, in the order the code tests it.
Classify(resp) ==
    IF resp.kind = "transport" THEN "Transport"
    ELSE IF resp.status \in StatusSuccess THEN "Success"
    ELSE IF resp.status \in StatusDrop THEN "DropSilently"
    ELSE IF resp.status \in StatusUnauthorized THEN "Unauthorized"
    ELSE IF resp.status \in StatusThrottle THEN "Throttle"
    ELSE IF Desc(resp) = errStringBucketNotFound THEN "BucketNotFound"
    ELSE IF StatusFirstDigit(resp.status) = 4 THEN "ClientError"
    ELSE "ServerError"

\* Outcomes for which writeBatch returns nil.
Absorbed == {"Success", "DropSilently", "ClientError"}

\* getRetryDuration, in whole seconds: time.Duration(retry) truncates the
\* float64 number of seconds before it is multiplied by time.Second.
RetryAfterValue(header) ==
    IF ~header.set THEN 0
    ELSE IF header.parses THEN header.value
    ELSE 10 * BackoffDenominator

getRetryDurationUncapped(count, header) ==
    Max(count * count, RetryAfterValue(header)) \div BackoffDenominator
getRetryDurationLinear(count, header) ==
    Min(Max(count, RetryAfterValue(header)), defaultMaxWait * BackoffDenominator)
        \div BackoffDenominator
getRetryDuration(count, header) ==
    LET backoff == count * count
        retry == Min(Max(backoff, RetryAfterValue(header)),
                     defaultMaxWait * BackoffDenominator)
    IN  retry \div BackoffDenominator

\* ------------------------------------------------------------------ state
VARIABLES
    BucketTag,             \* config: routing tag name, "" when none
    ExcludeBucketTag,      \* config: strip the routing tag from sent metrics
    SkipBucketCreation,    \* config: auto-creation disabled
    createBucketExecuted,  \* set of bucket names recorded as created
    retryTime,             \* retryNotBefore
    retryCount,
    now,                   \* the clock
    pc,                    \* where the (single) Write call stands
    metrics,               \* Write's argument: the batch of the call in progress
    batches,               \* Write's local map bucket -> metrics to send
    todo,                  \* buckets of the map the range loop has not visited
    bucket,                \* the loop's current bucket
    reqs,                  \* HTTP requests issued by the current / last call
    outcomes,              \* write outcomes of the current / last call
    result,                \* what the last Write call returned
    groups,                \* buckets of the (bucket, batch) pairs of that call
    entryRetryCount,       \* retryCount when that call began
    createRequested,       \* buckets a bucket-create request was ever issued for
    calls,                 \* concurrent callers of Write: where each one stands
    overlap,               \* the last call to pass the gate found another in flight
    overwritten            \* largest retryTime a concurrent call's store replaced

vars ==
    <<BucketTag, ExcludeBucketTag, SkipBucketCreation, createBucketExecuted,
      retryTime, retryCount, now, pc, metrics, batches, todo, bucket, reqs,
      outcomes, result, groups, entryRetryCount, createRequested, calls,
      overlap, overwritten>>

config == <<BucketTag, ExcludeBucketTag, SkipBucketCreation>>
retryState == <<retryTime, retryCount>>
locals == <<metrics, batches, todo, bucket>>
concurrent == <<calls, overlap, overwritten>>

\* The goroutines that call Write on one client without synchronization, and
\* a call that has not begun: pc is where it stands, count the retryCount it
\* loaded or the delay it computed, header the Retry-After of its response.
Callers == {1, 2}
NoCall == [pc |-> "idle", count |-> 0, header |-> NoRetryAfter]

NoBatches == [b \in {} |-> <<>>]

\* NewHTTPClient: empty created map, zero retryTime and retryCount.
\* (ExcludeBucketTag is read only when a routing tag is configured.)
Init ==
    /\ BucketTag \in {"", RoutingTag}
    /\ ExcludeBucketTag \in (IF BucketTag = "" THEN {FALSE} ELSE BOOLEAN)
    /\ SkipBucketCreation \in BOOLEAN
    /\ createBucketExecuted = {}
    /\ retryTime = 0
    /\ retryCount = 0
    /\ now = 0
    /\ pc = "idle"
    /\ metrics = <<>>
    /\ batches = NoBatches
    /\ todo = {}
    /\ bucket = Bucket
    /\ reqs = <<>>
    /\ outcomes = <<>>
    /\ result = "none"
    /\ groups = {}
    /\ entryRetryCount = 0
    /\ createRequested = {}
    /\ calls = [w \in Callers |-> NoCall]
    /\ overlap = FALSE
    /\ overwritten = 0

Request(kind, b) == [kind |-> kind, bucket |-> b]

\* The gate of Write: c.retryTime.After(time.Now()).
RetryWindowActiveOffByMaxWait(rt, t) == rt > t + defaultMaxWait
RetryWindowNeverActive(rt, t) == FALSE
RetryWindowActiveReversed(rt, t) == rt < t
RetryWindowActive(rt, t) == rt > t

\* The bucket a metric is routed to.
RouteOfIgnoresTag(metric) == Bucket
RouteOf(metric) ==
    LET tag == GetTag(metric, BucketTag)
    IN  IF tag.ok THEN tag.value ELSE Bucket

\* The metric appended to its batch: a stripped copy when ExcludeBucketTag.
Outgoing(metric) ==
    IF ExcludeBucketTag THEN RemoveTag(metric, BucketTag) ELSE metric

\* The map built by the partition loop of Write.
RECURSIVE BatchOf(_, _, _)
BatchOf(ms, b, i) ==
    IF i > Len(ms) THEN <<>>
    ELSE IF RouteOf(ms[i]) = b
         THEN <<Outgoing(ms[i])>> \o BatchOf(ms, b, i + 1)
         ELSE BatchOf(ms, b, i + 1)

Partition(ms) ==
    [b \in {RouteOf(ms[i]) : i \in 1..Len(ms)} |-> BatchOf(ms, b, 1)]

\* The caller's slice after the partition loop: RemoveTag acted on the copy
\* metric.Copy() made, so every element is the metric it was.
InputStripped(ms) == [i \in 1..Len(ms) |-> Outgoing(ms[i])]
InputAfterPartition(ms) == [i \in 1..Len(ms) |-> ms[i]]

\* Whether the range loop calls CreateBucket for a bucket.
NeedsCreateIgnoresMap(b) == ~SkipBucketCreation
NeedsCreate(b) == ~SkipBucketCreation /\ b \notin createBucketExecuted

\* What Write returns for a sub-batch whose write ended in a class: nil for
\* the outcomes writeBatch absorbs, the error otherwise.
writeBatchErrorAbsorbsTransport(class) ==
    IF class \in Absorbed \cup {"Transport"} THEN "nil" ELSE class
writeBatchErrorAbsorbsNotFound(class) ==
    IF class \in Absorbed \cup {"BucketNotFound"} THEN "nil" ELSE class
writeBatchErrorReturnsDrop(class) ==
    IF class \in Absorbed \ {"DropSilently"} THEN "nil" ELSE class
writeBatchError(class) == IF class \in Absorbed THEN "nil" ELSE class

\* The locals of Write after its return.
Return ==
    /\ pc' = "idle"
    /\ metrics' = <<>>
    /\ batches' = NoBatches
    /\ todo' = {}
    /\ bucket' = Bucket

\* Write, from its call to its first request or its return.
Write(ms) ==
    /\ pc = "idle"
    /\ retryCount < MaxRetryCount
    /\ entryRetryCount' = retryCount
    /\ outcomes' = <<>>
    /\ UNCHANGED concurrent
    /\ UNCHANGED <<config, createBucketExecuted, retryState, now, createRequested>>
    /\ IF RetryWindowActive(retryTime, now)
       THEN /\ result' = "RetryWindowActive"
            /\ reqs' = <<>>
            /\ groups' = {}
            /\ Return
       ELSE IF BucketTag = ""
       THEN /\ metrics' = ms
            /\ batches' = NoBatches
            /\ todo' = {}
            /\ bucket' = Bucket
            /\ groups' = {Bucket}
            /\ reqs' = <<Request("write", Bucket)>>
            /\ pc' = "writeBatch"
            /\ result' = "none"
       ELSE /\ metrics' = InputAfterPartition(ms)
            /\ batches' = Partition(ms)
            /\ todo' = DOMAIN Partition(ms)
            /\ bucket' = Bucket
            /\ groups' = DOMAIN Partition(ms)
            /\ reqs' = <<>>
            /\ pc' = "range"
            /\ result' = "none"

\* The head of the range loop over the map: the next bucket in any order, its
\* CreateBucket call (the org lookup is its first request) or its write; the
\* return of nil when the map is exhausted.
Range ==
    /\ pc = "range"
    /\ UNCHANGED concurrent
    /\ UNCHANGED <<config, createBucketExecuted, retryState, now, outcomes,
                   groups, entryRetryCount, createRequested>>
    /\ IF todo = {}
       THEN /\ result' = "nil"
            /\ reqs' = reqs
            /\ Return
       ELSE \E b \in todo :
            /\ UNCHANGED <<metrics, batches>>
            /\ todo' = todo \ {b}
            /\ bucket' = b
            /\ result' = "none"
            /\ IF NeedsCreate(b)
               THEN /\ reqs' = Append(reqs, Request("org", b))
                    /\ pc' = "getOrgID"
               ELSE /\ reqs' = Append(reqs, Request("write", b))
                    /\ pc' = "writeBatch"

\* The org-lookup responses: a transport failure, or a status with a body that
\* is invalid JSON, empty, or JSON listing some number of organisations.
OrgResponses ==
    {TransportError}
        \cup {[kind |-> "resp", status |-> s, body |-> b, orgs |-> n] :
                s \in {200, 404, 429}, b \in {"invalid", "empty", "json"}, n \in 0..2}

\* getOrgID returns an id: no transport error, validateResponse accepts the
\* body, the body decodes, the status is 200 and exactly one org is listed.
getOrgIDSucceeds(resp) ==
    /\ resp.kind = "resp"
    /\ resp.body = "json"
    /\ resp.status = 200
    /\ resp.orgs = 1

\* CreateBucket after the org lookup answered: the create request, or on a
\* failed lookup the logged error and the write of Write's next line.
GetOrgIDResponse(resp) ==
    /\ pc = "getOrgID"
    /\ UNCHANGED concurrent
    /\ UNCHANGED <<config, createBucketExecuted, retryState, now, locals,
                   outcomes, result, groups, entryRetryCount>>
    /\ IF getOrgIDSucceeds(resp)
       THEN /\ reqs' = Append(reqs, Request("create", bucket))
            /\ createRequested' = createRequested \cup {bucket}
            /\ pc' = "CreateBucket"
       ELSE /\ reqs' = Append(reqs, Request("write", bucket))
            /\ UNCHANGED createRequested
            /\ pc' = "writeBatch"

CreateResponses ==
    {TransportError}
        \cup {[kind |-> "resp", status |-> s] : s \in {201, 200, 422, 429, 500, 503}}

\* CreateBucket records the bucket on 201 alone.
BucketCreatedOn422Too(resp) == resp.kind = "resp" /\ resp.status \in {201, 422}
BucketCreatedOnAny2xx(resp) == resp.kind = "resp" /\ resp.status \div 100 = 2
BucketCreated(resp) == resp.kind = "resp" /\ resp.status = 201

\* CreateBucket after the create request answered, then the write.
CreateBucketResponse(resp) ==
    /\ pc = "CreateBucket"
    /\ createBucketExecuted' =
          IF BucketCreated(resp)
          THEN createBucketExecuted \cup {bucket}
          ELSE createBucketExecuted
    /\ reqs' = Append(reqs, Request("write", bucket))
    /\ pc' = "writeBatch"
    /\ UNCHANGED concurrent
    /\ UNCHANGED <<config, retryState, now, locals, outcomes, result, groups,
                   entryRetryCount, createRequested>>

\* writeBatch after the write request answered, and Write's handling of what
\* it returns: nil continues the loop (or returns nil when no routing tag is
\* configured), an error is returned at once.
WriteBatchResponse(resp) ==
    LET class == Classify(resp) IN
    /\ pc = "writeBatch"
    /\ outcomes' = Append(outcomes, [bucket |-> bucket, class |-> class])
    /\ retryCount' =
          IF class = "Success" THEN 0
          ELSE IF class = "Throttle" THEN retryCount + 1
          ELSE retryCount
    /\ retryTime' =
          IF class = "Throttle"
          THEN now + getRetryDuration(retryCount + 1, resp.retryAfter)
          ELSE retryTime
    /\ IF writeBatchError(class) = "nil" /\ BucketTag # ""
       THEN /\ pc' = "range"
            /\ result' = "none"
            /\ UNCHANGED locals
       ELSE /\ result' = writeBatchError(class)
            /\ Return
    /\ UNCHANGED concurrent
    /\ UNCHANGED <<config, createBucketExecuted, now, reqs, groups,
                   entryRetryCount, createRequested>>

\* The clock advances.
TickSteps == {60}
Tick(d) ==
    /\ now + d <= MaxTime
    /\ now' = now + d
    /\ UNCHANGED concurrent
    /\ UNCHANGED <<config, createBucketExecuted, retryState, pc, locals, reqs,
                   outcomes, result, groups, entryRetryCount, createRequested>>

Next ==
    \/ \E ms \in Batches : Write(ms)
    \/ Range
    \/ \E resp \in OrgResponses : GetOrgIDResponse(resp)
    \/ \E resp \in CreateResponses : CreateBucketResponse(resp)
    \/ \E resp \in WriteResponses : WriteBatchResponse(resp)
    \/ \E d \in TickSteps : Tick(d)

Spec == Init /\ [][Next]_vars

\* The client with a clock that keeps advancing (up to the model's horizon).
SpecLive == Spec /\ WF_vars(\E d \in TickSteps : Tick(d))

\* ----------------------------------------------------------------- routing
\* The client fed with batches whose metrics are told apart by their names,
\* carry an ordinary tag besides the routing tag and are routed to two named
\* buckets or to the default one; every write succeeds or fails in transport.
HostTags == [t \in {"host"} |-> "h"]
RoutedTags(v) == [t \in {"host", RoutingTag} |-> IF t = RoutingTag THEN v ELSE "h"]
RoutedMetrics ==
    MetricsOf({"cpu", "mem"}, {HostTags} \cup {RoutedTags(v) : v \in {"b1", Bucket}})
RoutedBatches == BatchesOf(RoutedMetrics)
RoutingResponses == {TransportError, Response(204, "nojson", NoRetryAfter)}

NextRouting ==
    \/ \E ms \in RoutedBatches : Write(ms)
    \/ Range
    \/ \E resp \in OrgResponses : GetOrgIDResponse(resp)
    \/ \E resp \in CreateResponses : CreateBucketResponse(resp)
    \/ \E resp \in RoutingResponses : WriteBatchResponse(resp)
    \/ \E d \in TickSteps : Tick(d)

SpecRouting == Init /\ [][NextRouting]_vars

\* ------------------------------------------------------------- concurrency
\* Write called from two goroutines on one client.  The client holds no lock,
\* so the steps of the calls interleave freely: the gate's read of retryTime,
\* the load and the store of c.retryCount++, the read of retryCount in
\* getRetryDuration and the store of retryTime are steps of their own.  The
\* calls take the path of a client without routing tag: the gate, then one
\* writeBatch.
sequential ==
    <<config, createBucketExecuted, pc, locals, reqs, outcomes, result, groups,
      entryRetryCount, createRequested>>

\* What the server answers a concurrent write with: a transport failure, 204,
\* 401, 429 without Retry-After and 429 with Retry-After 5 s and 70 s.
ConcurrentResponses ==
    {TransportError}
        \cup {Response(s, "nojson", NoRetryAfter) : s \in {204, 401, 429}}
        \cup {Response(429, "nojson", [set |-> TRUE, parses |-> TRUE, value |-> v]) :
                v \in {200, 2800}}

InFlight(w) == calls[w].pc # "idle"

\* Write up to its write request; a call the gate refuses returns at once and
\* leaves no trace.
ConcurrentWrite(w) ==
    /\ calls[w].pc = "idle"
    /\ retryCount < MaxRetryCount
    /\ ~RetryWindowActive(retryTime, now)
    /\ calls' = [calls EXCEPT ![w].pc = "writeBatch"]
    /\ overlap' = \E v \in Callers \ {w} : InFlight(v)
    /\ UNCHANGED <<sequential, retryState, now, overwritten>>

\* writeBatch after its response: retryCount = 0 on success; on a throttle
\* the load of c.retryCount++; the return on every other outcome.
ConcurrentWriteBatchResponse(w, resp) ==
    LET class == Classify(resp) IN
    /\ calls[w].pc = "writeBatch"
    /\ retryCount' = IF class = "Success" THEN 0 ELSE retryCount
    /\ calls' =
          IF class = "Throttle"
          THEN [calls EXCEPT ![w] = [pc |-> "retryCount++", count |-> retryCount,
                                     header |-> resp.retryAfter]]
          ELSE [calls EXCEPT ![w] = NoCall]
    /\ UNCHANGED <<sequential, retryTime, now, overlap, overwritten>>

\* The store of c.retryCount++.
RetryCountStore(w) ==
    /\ calls[w].pc = "retryCount++"
    /\ retryCount' = calls[w].count + 1
    /\ calls' = [calls EXCEPT ![w].pc = "getRetryDuration", ![w].count = 0]
    /\ UNCHANGED <<sequential, retryTime, now, overlap, overwritten>>

\* getRetryDuration reads retryCount and the header.
ConcurrentGetRetryDuration(w) ==
    /\ calls[w].pc = "getRetryDuration"
    /\ calls' = [calls EXCEPT ![w].pc = "retryTime",
                              ![w].count = getRetryDuration(retryCount, calls[w].header)]
    /\ UNCHANGED <<sequential, retryState, now, overlap, overwritten>>

\* c.retryTime = time.Now().Add(retryDuration), and the return of the error.
RetryTimeStore(w) ==
    /\ calls[w].pc = "retryTime"
    /\ retryTime' = now + calls[w].count
    /\ overwritten' = Max(overwritten, retryTime)
    /\ calls' = [calls EXCEPT ![w] = NoCall]
    /\ UNCHANGED <<sequential, retryCount, now, overlap>>

InitConcurrent == Init /\ BucketTag = ""

NextConcurrent ==
    \/ \E w \in Callers : ConcurrentWrite(w)
    \/ \E w \in Callers : \E resp \in ConcurrentResponses :
          ConcurrentWriteBatchResponse(w, resp)
    \/ \E w \in Callers : RetryCountStore(w)
    \/ \E w \in Callers : ConcurrentGetRetryDuration(w)
    \/ \E w \in Callers : RetryTimeStore(w)
    \/ \E d \in TickSteps : Tick(d)

SpecConcurrent == InitConcurrent /\ [][NextConcurrent]_vars

\* ----------------------------------------------------------------- back-off
\* The throttle branch of writeBatch on a client that has met any number of
\* consecutive throttles: the response has just arrived with retryCount at n
\* and any Retry-After header; the steps are c.retryCount++, getRetryDuration
\* and the store of retryTime.
InitBackoff ==
    /\ BucketTag = ""
    /\ ExcludeBucketTag = FALSE
    /\ SkipBucketCreation \in BOOLEAN
    /\ createBucketExecuted = {}
    /\ retryTime = 0
    /\ retryCount \in 0..(MaxThrottles - 1)
    /\ now = 0
    /\ pc = "idle"
    /\ metrics = <<>>
    /\ batches = NoBatches
    /\ todo = {}
    /\ bucket = Bucket
    /\ reqs = <<>>
    /\ outcomes = <<>>
    /\ result = "none"
    /\ groups = {}
    /\ entryRetryCount = 0
    /\ createRequested = {}
    /\ \E h \in RetryAfterHeaders :
          calls = [w \in Callers |->
                     IF w = 1
                     THEN [pc |-> "retryCount++", count |-> retryCount, header |-> h]
                     ELSE NoCall]
    /\ overlap = FALSE
    /\ overwritten = 0

NextBackoff ==
    \/ RetryCountStore(1)
    \/ ConcurrentGetRetryDuration(1)
    \/ RetryTimeStore(1)

SpecBackoff == InitBackoff /\ [][NextBackoff]_vars

\* ------------------------------------------------------------------ claims
Last(seq) == seq[Len(seq)]
WritesTo(seq, b) == {i \in 1..Len(seq) : seq[i] = Request("write", b)}
OrgLookupsFor(seq, b) == {i \in 1..Len(seq) : seq[i] = Request("org", b)}
CreatesFor(seq, b) == {i \in 1..Len(seq) : seq[i] = Request("create", b)}

\* A step in which Write is called: the client is idle and the step is not
\* the clock's.
WriteCalled == pc = "idle" /\ now' = now /\ entryRetryCount' = retryCount

\* C1: a Write call made at an instant strictly before retryTime returns the
\* retry-window error, has issued no HTTP request (no org lookup, no bucket
\* creation, no write) and leaves retryCount, retryTime and the created set
\* as they were.
RetryGate ==
    [][(WriteCalled /\ now < retryTime) =>
          /\ pc' = "idle"
          /\ result' = "RetryWindowActive"
          /\ reqs' = <<>>
          /\ retryCount' = retryCount
          /\ retryTime' = retryTime
          /\ createBucketExecuted' = createBucketExecuted]_vars

\* A call was refused while the window was open, after a throttle.
RetryGateWitness ==
    /\ pc = "idle"
    /\ result = "RetryWindowActive"
    /\ now < retryTime
    /\ retryCount > 0
    /\ reqs = <<>>

Fatal == {"Unauthorized", "ServerError", "BucketNotFound", "Throttle"}

\* C2: the groups of a call are written one after another; an Unauthorized,
\* ServerError, BucketNotFound or Throttle outcome is the last outcome of its
\* call, the call has returned that error and the write that met it is the
\* call's last request; a call that returned nil has attempted every one of
\* its groups and each ended as Success or as a drop.
WriteResultContract ==
    /\ \A i \in 1..Len(outcomes) :
          outcomes[i].class \in Fatal =>
             /\ i = Len(outcomes)
             /\ pc = "idle"
             /\ result = outcomes[i].class
             /\ Last(reqs) = Request("write", outcomes[i].bucket)
    /\ (pc = "idle" /\ result = "nil") =>
          /\ {outcomes[i].bucket : i \in 1..Len(outcomes)} = groups
          /\ Len(outcomes) = Cardinality(groups)
          /\ \A i \in 1..Len(outcomes) :
                outcomes[i].class \in {"Success", "DropSilently", "ClientError"}

\* A call of two groups returned a fatal error at its first group: the second
\* group got no request.
WriteResultContractWitness ==
    /\ pc = "idle"
    /\ result \in Fatal
    /\ Cardinality(groups) = 2
    /\ Len(outcomes) = 1
    /\ \A i \in 1..Len(reqs) : reqs[i].bucket = outcomes[1].bucket

\* C3: a write response with status 204, 200, 201, 202, 206, 207 or 208 is
\* classified Success whatever retryCount was, no error is returned for the
\* sub-batch and retryCount is 0 afterwards.
ResponsesC3 ==
    {resp \in WriteResponses \ {TransportError} :
        resp.status \in {204, 200, 201, 202, 206, 207, 208}}
SuccessResetsRetryCount ==
    [][pc = "writeBatch" =>
          \A resp \in ResponsesC3 :
             WriteBatchResponse(resp) =>
                /\ Last(outcomes').class = "Success"
                /\ result' \in {"nil", "none"}
                /\ retryCount' = 0]_vars

\* A write succeeded in a call that began with a positive retryCount.
SuccessResetsRetryCountWitness ==
    /\ outcomes # <<>>
    /\ outcomes[1].class = "Success"
    /\ entryRetryCount > 0
    /\ retryCount = 0

\* C4: a write response with status 400, 413, 422 or 406 gives no error for its
\* sub-batch (the call goes on with the next group or returns nil), and no
\* call issues two write requests for the same group, whatever the outcomes.
ResponsesC4 ==
    {resp \in WriteResponses \ {TransportError} :
        resp.status \in {400, 413, 422, 406}}
DropIsNotRetried ==
    [][/\ pc = "writeBatch" =>
             \A resp \in ResponsesC4 :
                WriteBatchResponse(resp) =>
                   /\ result' \in {"nil", "none"}
                   /\ reqs' = reqs
                   /\ bucket \notin todo'
       /\ \A b \in Buckets : Cardinality(WritesTo(reqs', b)) <= 1]_vars

\* A call returned nil after a dropped sub-batch that was written once.
DropIsNotRetriedWitness ==
    /\ pc = "idle"
    /\ result = "nil"
    /\ \E i \in 1..Len(outcomes) :
          /\ outcomes[i].class = "DropSilently"
          /\ Cardinality(WritesTo(reqs, outcomes[i].bucket)) = 1

\* The delay the back-off rule names, in 1/BackoffDenominator seconds:
\* min(max(retryCount^2 / 40, Retry-After), 60) seconds, the header counting
\* 0 when absent and 10 s when present but unparseable.
ClaimedRetryAfter(header) ==
    IF ~header.set THEN 0
    ELSE IF header.parses THEN header.value
    ELSE 10 * BackoffDenominator
ClaimedDelay(count, header) ==
    Min(Max(count * count, ClaimedRetryAfter(header)), 60 * BackoffDenominator)

ResponsesC5 ==
    {resp \in WriteResponses \ {TransportError} :
        resp.status \in {429, 503, 502, 504}}

\* C5: a write response with status 429, 503, 502 or 504 increments retryCount
\* by exactly 1, sets retryTime to now + min(max(backoff, Retry-After), 60)
\* seconds and returns an error.
ThrottleInstallsDelay ==
    [][pc = "writeBatch" =>
          \A resp \in ResponsesC5 :
             WriteBatchResponse(resp) =>
                /\ retryCount' = retryCount + 1
                /\ (retryTime' - now) * BackoffDenominator
                      = ClaimedDelay(retryCount + 1, resp.retryAfter)
                /\ result' = "Throttle"]_vars

\* C6: when a Write call returns with a Throttle outcome the retry window is
\* open at that instant, so that a Write call made immediately afterwards is
\* refused by the gate without contacting the server.
ThrottleClosesGate ==
    [][(pc = "writeBatch" /\ pc' = "idle" /\ result' = "Throttle") =>
          now' < retryTime']_vars

ResponsesC7 ==
    {resp \in WriteResponses \ {TransportError} :
        /\ resp.status \in 400..499
        /\ resp.status \notin {400, 401, 403, 406, 413, 422, 429}}

\* The sub-batch was logged and dropped: no error, the call goes on with the
\* next group (or returns nil when it had the single default-bucket group).
DroppedAs(class) ==
    /\ Last(outcomes').class = class
    /\ result' \in {"nil", "none"}
    /\ BucketTag # "" => pc' = "range"
    /\ BucketTag = "" => (pc' = "idle" /\ result' = "nil")

\* C7 as stated: every other 4xx write response, whatever its body, is a
\* ClientError: logged and dropped, no error, the call goes on.
ClientErrorWhateverBody ==
    [][pc = "writeBatch" =>
          \A resp \in ResponsesC7 :
             WriteBatchResponse(resp) => DroppedAs("ClientError")]_vars

\* C7 as amended: every other 4xx write response whose description does not
\* hold the bucket-not-found signature is a ClientError: logged and dropped, no
\* error, the call goes on; one whose description holds the signature is a
\* BucketNotFound error, which Write returns at once.
ClientErrorUnlessBucketNotFound ==
    [][pc = "writeBatch" =>
          \A resp \in ResponsesC7 :
             WriteBatchResponse(resp) =>
                IF resp.body = "jsonBucketNotFound"
                THEN /\ Last(outcomes').class = "BucketNotFound"
                     /\ result' = "BucketNotFound"
                     /\ pc' = "idle"
                ELSE DroppedAs("ClientError")]_vars

\* A call dropped its first group as a ClientError and wrote its second.
ClientErrorWitness ==
    /\ Len(outcomes) = 2
    /\ outcomes[1].class = "ClientError"
    /\ Cardinality(WritesTo(reqs, outcomes[2].bucket)) = 1

\* C8 as stated: however often a bucket is ensured, one bucket-create request
\* is issued for it in total, so that none is issued for a bucket that was
\* sent one before.
EnsureTwiceCreatesOnce ==
    [][(pc = "getOrgID" /\ pc' = "CreateBucket") =>
          bucket \notin createRequested]_vars

\* C8 as amended: once a bucket-create request for a name has returned 201 the
\* name is recorded, and ensuring a recorded name issues no org-lookup and no
\* bucket-create request again; a recorded name was sent a create request.
NoCreateAfterCreated ==
    [][/\ (Len(reqs') > Len(reqs) /\ Last(reqs').kind \in {"org", "create"}) =>
             Last(reqs').bucket \notin createBucketExecuted
       /\ createBucketExecuted' \subseteq createRequested']_vars

\* A later call writes to a recorded bucket without any creation request.
NoCreateAfterCreatedWitness ==
    /\ BucketTag # ""
    /\ ~SkipBucketCreation
    /\ pc = "writeBatch"
    /\ bucket \in createBucketExecuted
    /\ OrgLookupsFor(reqs, bucket) = {}
    /\ CreatesFor(reqs, bucket) = {}

\* C9: a write request for a bucket that is not recorded as created, with
\* auto-creation enabled, was preceded in its call by the bucket's resolution
\* (the org lookup that begins the creation attempt).
ResolutionBeforeWrite ==
    \A i \in 1..Len(reqs) :
       (/\ reqs[i].kind = "write"
        /\ ~SkipBucketCreation
        /\ reqs[i].bucket \notin createBucketExecuted) =>
          \E j \in 1..(i - 1) : reqs[j] = Request("org", reqs[i].bucket)

OrgLookupFails(resp) ==
    \/ resp.kind = "transport"
    \/ resp.status # 200
    \/ resp.body # "json"
    \/ resp.orgs # 1
CreateFails(resp) == resp.kind = "transport" \/ resp.status # 201

\* After a failed creation: the bucket is not recorded and its write request
\* is the next request.
WrittenUnrecorded ==
    /\ createBucketExecuted' = createBucketExecuted
    /\ bucket \notin createBucketExecuted'
    /\ Last(reqs') = Request("write", bucket)
    /\ pc' = "writeBatch"

\* C10: when bucket creation fails (failed org lookup, transport failure, a
\* create response other than 201) the bucket is not recorded as created and
\* its write request is issued all the same; and a call that comes to a group
\* whose bucket is not recorded (auto-creation enabled) attempts the creation
\* again, beginning with the org lookup.
CreationFailureIsNotFatal ==
    [][/\ pc = "getOrgID" =>
             \A resp \in OrgResponses :
                (OrgLookupFails(resp) /\ GetOrgIDResponse(resp)) => WrittenUnrecorded
       /\ pc = "CreateBucket" =>
             \A resp \in CreateResponses :
                (CreateFails(resp) /\ CreateBucketResponse(resp)) => WrittenUnrecorded
       /\ (/\ pc = "range"
           /\ pc' \in {"getOrgID", "writeBatch"}
           /\ ~SkipBucketCreation
           /\ bucket' \notin createBucketExecuted) =>
             (pc' = "getOrgID" /\ Last(reqs') = Request("org", bucket'))]_vars

\* A call attempts the creation of a bucket whose create request failed in an
\* earlier call.
CreationFailureWitness ==
    /\ pc = "getOrgID"
    /\ bucket \in createRequested
    /\ bucket \notin createBucketExecuted
    /\ Last(reqs) = Request("org", bucket)

\* C11: with a routing tag configured and tag stripping enabled, no step of a
\* Write call changes the caller's batch: the call begins with the batch the
\* caller holds after that step, every later step of the call up to its return
\* leaves the batch as it was (names, tags with the routing tag, fields,
\* positions), whatever the write outcomes, and every metric of the groups
\* that are sent lacks the routing tag.
InputUntouched ==
    [][(BucketTag # "" /\ ExcludeBucketTag) =>
          /\ (pc = "idle" /\ pc' # "idle") => Write(metrics')
          /\ (pc # "idle" /\ pc' # "idle") => metrics' = metrics
          /\ \A b \in DOMAIN batches' : \A k \in 1..Len(batches'[b]) :
                RoutingTag \notin DOMAIN batches'[b][k].tags]_vars

\* A call has written one of its groups and is writing the next, and the
\* caller's metrics still carry the routing tag the sent copies lack.
InputUntouchedWitness ==
    /\ ExcludeBucketTag
    /\ pc = "writeBatch"
    /\ Len(outcomes) = 1
    /\ Len(metrics) = 2
    /\ \E i \in 1..Len(metrics) : RoutingTag \in DOMAIN metrics[i].tags
    /\ \A b \in DOMAIN batches : \A k \in 1..Len(batches[b]) :
          RoutingTag \notin DOMAIN batches[b][k].tags

\* The group the routing rule names for a metric, the positions of the input
\* routed to a group, and the k-th smallest of a set of positions.
ClaimedGroup(m) ==
    IF RoutingTag \in DOMAIN m.tags THEN m.tags[RoutingTag] ELSE Bucket
Positions(b) == {i \in 1..Len(metrics) : ClaimedGroup(metrics[i]) = b}
Nth(S, k) == CHOOSE i \in S : Cardinality({j \in S : j < i}) = k - 1
Tagged == {i \in 1..Len(metrics) : RoutingTag \in DOMAIN metrics[i].tags}
TaggedDefault == {i \in Tagged : metrics[i].tags[RoutingTag] = Bucket}

\* A metric of a group is an input metric, less the routing tag when stripped.
SentFrom(sent, m) ==
    /\ sent.name = m.name
    /\ sent.fields = m.fields
    /\ DOMAIN sent.tags
          = (DOMAIN m.tags) \ (IF ExcludeBucketTag THEN {RoutingTag} ELSE {})
    /\ \A t \in DOMAIN sent.tags : sent.tags[t] = m.tags[t]

GroupLen(b) == IF b \in DOMAIN batches THEN Len(batches[b]) ELSE 0
RECURSIVE SumLen(_)
SumLen(S) ==
    IF S = {} THEN 0
    ELSE LET b == CHOOSE x \in S : TRUE IN GroupLen(b) + SumLen(S \ {b})

\* The groups of the call in progress are the input batch split by routing-tag
\* value: a group for each value met (the default bucket for a metric without
\* the tag), each group holding the metrics routed to it in input order, the
\* groups together the N input metrics.
GroupsPartitionInput ==
    /\ DOMAIN batches = {ClaimedGroup(metrics[i]) : i \in 1..Len(metrics)}
    /\ \A b \in DOMAIN batches :
          /\ Len(batches[b]) = Cardinality(Positions(b))
          /\ \A k \in 1..Len(batches[b]) :
                SentFrom(batches[b][k], metrics[Nth(Positions(b), k)])
    /\ SumLen(DOMAIN batches) = Len(metrics)

\* C12 as stated: the groups partition the input batch as above, and with the
\* tag present on M of the N metrics the named groups hold M metrics and the
\* default-bucket group N - M.
PartitionNamedHoldTagged ==
    (pc # "idle" /\ BucketTag # "") =>
       /\ GroupsPartitionInput
       /\ SumLen((DOMAIN batches) \ {Bucket}) = Cardinality(Tagged)
       /\ GroupLen(Bucket) = Len(metrics) - Cardinality(Tagged)

\* C12 as amended: the groups partition the input batch as above, and with the
\* tag present on M of the N metrics, on K of them with the default bucket's
\* own name as its value, the groups of the other names hold M - K metrics and
\* the default-bucket group N - M + K.
PartitionByTagValue ==
    (pc # "idle" /\ BucketTag # "") =>
       /\ GroupsPartitionInput
       /\ SumLen((DOMAIN batches) \ {Bucket})
             = Cardinality(Tagged) - Cardinality(TaggedDefault)
       /\ GroupLen(Bucket)
             = Len(metrics) - Cardinality(Tagged) + Cardinality(TaggedDefault)

\* A call whose two metrics, of different names, went to one group, at least
\* one of them by its tag.
PartitionWitness ==
    /\ BucketTag # ""
    /\ pc = "writeBatch"
    /\ Len(metrics) = 2
    /\ Tagged # {}
    /\ \E b \in DOMAIN batches :
          /\ Len(batches[b]) = 2
          /\ batches[b][1].name # batches[b][2].name

\* C13: a write request that fails in transport makes Write return that error
\* at once: the outcome is none of the response classes, no further request is
\* issued (the write is not repeated, no other group is written), and
\* retryCount, retryTime and the created set are as they were.
TransportFailureReturns ==
    [][pc = "writeBatch" =>
          (WriteBatchResponse(TransportError) =>
              /\ Last(outcomes').class = "Transport"
              /\ pc' = "idle"
              /\ result' = "Transport"
              /\ reqs' = reqs
              /\ Last(reqs') = Request("write", bucket)
              /\ retryCount' = retryCount
              /\ retryTime' = retryTime
              /\ createBucketExecuted' = createBucketExecuted)]_vars

\* A call of two groups, begun after a throttle, returned the transport error
\* of its first write.
TransportFailureWitness ==
    /\ pc = "idle"
    /\ result = "Transport"
    /\ Cardinality(groups) = 2
    /\ Len(outcomes) = 1
    /\ retryCount > 0
    /\ retryCount = entryRetryCount

\* C14: with one Write call at a time and a clock that does not go back,
\* retryTime never decreases: the value a throttle installs is at least the
\* value it replaces.
RetryTimeNeverDecreases == [][retryTime' >= retryTime]_vars

\* A second throttle in a row, met after the clock advanced past the first
\* window, has installed its retryTime.
RetryTimeNeverDecreasesWitness ==
    /\ pc = "idle"
    /\ result = "Throttle"
    /\ retryCount = 2
    /\ now > 0
    /\ retryTime > now

\* C15: the single-writer assumption is necessary.  When two Write calls on
\* one client interleave without mutual exclusion, both pass the gate and a
\* throttle of one stores a retryTime earlier than the one the other call's
\* throttle installed; retryTime is lowered by no other step than the store of
\* a call that ran while another call was in flight.
LoweredOnlyWhenOverlapped ==
    [][retryTime' < retryTime =>
          /\ overlap
          /\ \E w \in Callers : RetryTimeStore(w)]_vars

\* Both calls passed the gate and have returned; the later store replaced a
\* longer cool-down by a shorter one, which has already elapsed.
RetryTimeOverwritten ==
    /\ \A w \in Callers : ~InFlight(w)
    /\ overlap
    /\ retryTime < overwritten
    /\ now < overwritten
    /\ ~RetryWindowActive(retryTime, now)

\* The delay of the call that has computed it, and the state in which it has.
ComputedDelay == calls[1].count
DelayComputed == calls[1].pc = "retryTime"

\* C16: on a throttle without Retry-After header the delay is exactly
\* retryCount^2 / 40 seconds capped at 60 s, the fractional part kept
\* (22.5 s for retryCount 30).
BackoffKeepsFraction ==
    (DelayComputed /\ ~calls[1].header.set) =>
       ComputedDelay * BackoffDenominator
          = Min(retryCount * retryCount, 60 * BackoffDenominator)

NoLockOut ==
    /\ [][retryTime' # retryTime =>
             (now' = now /\ retryTime' <= now + defaultMaxWait)]_vars
    /\ (RetryWindowActive(retryTime, now) /\ retryTime <= MaxTime)
          ~> ~RetryWindowActive(retryTime, now)
    /\ [][(WriteCalled /\ ~RetryWindowActive(retryTime, now)) =>
             (pc' # "idle" /\ result' # "RetryWindowActive")]_vars

\* After a throttle that installed the longest window, the window has
\* elapsed and a later call is writing.
NoLockOutWitness ==
    /\ pc = "writeBatch"
    /\ entryRetryCount > 0
    /\ retryTime = defaultMaxWait
    /\ now >= retryTime

\* The write responses by the outcome they lead to.
ResponsesBy ==
    [class \in {Classify(resp) : resp \in WriteResponses} |->
        {resp \in WriteResponses : Classify(resp) = class}]
OutcomesOf(class) == {i \in 1..Len(outcomes) : outcomes[i].class = class}

\* retryCount is the number of Throttle outcomes since the last Success:
\* those of the call after its last Success, or those of the call added to
\* the count the call began with.
RetryCountAccounts ==
    IF OutcomesOf("Success") = {}
    THEN retryCount = entryRetryCount + Cardinality(OutcomesOf("Throttle"))
    ELSE retryCount =
            Cardinality({i \in OutcomesOf("Throttle") :
                            \A j \in OutcomesOf("Success") : j < i})

\* What a write response does to the retry state, by its status.  (It is
\* tested before the response is matched against the step.)
RetryStateEffect(resp) ==
    IF resp.kind = "resp" /\ resp.status \in {204, 200, 201, 202, 206, 207, 208}
    THEN retryCount' = 0 /\ retryTime' = retryTime
    ELSE IF resp.kind = "resp" /\ resp.status \in {429, 503, 502, 504}
    THEN /\ retryCount' = retryCount + 1
         /\ retryTime' >= now
         /\ retryTime' <= now + defaultMaxWait
    ELSE retryCount' = retryCount /\ retryTime' = retryTime

\* C19: the retry state is changed by two events alone: a write response with
\* a Success status sets retryCount to 0 and leaves retryTime, one with a
\* Throttle status adds 1 to retryCount and installs retryTime anew.  Every
\* other write response and a transport failure leave both, and so does every
\* step that is not a write response: the org-lookup and bucket-create
\* responses whatever their status, the call of Write, the clock.  retryCount
\* is never negative and counts the throttles since the last Success.
RetryStateFrame ==
    /\ [](retryCount >= 0 /\ RetryCountAccounts)
    /\ [][/\ (pc = "writeBatch" /\ outcomes' # outcomes) =>
                \A resp \in ResponsesBy[Last(outcomes').class] :
                   RetryStateEffect(resp) \/ ~WriteBatchResponse(resp)
          /\ (pc # "writeBatch" \/ outcomes' = outcomes) =>
                (retryCount' = retryCount /\ retryTime' = retryTime)]_vars

\* A call that began with a positive retryCount had its first write succeed,
\* then its bucket-create request for the next group fail, then the write of
\* that group throttled: retryCount is 1.
RetryStateFrameWitness ==
    /\ pc = "idle"
    /\ result = "Throttle"
    /\ entryRetryCount > 0
    /\ Len(outcomes) = 2
    /\ outcomes[1].class = "Success"
    /\ CreatesFor(reqs, outcomes[2].bucket) # {}
    /\ outcomes[2].bucket \notin createBucketExecuted
    /\ retryCount = 1

\* C20: the created set only grows; a name enters it in the step in which the
\* bucket-create request for that name is answered with 201 and in no other;
\* no write outcome, the BucketNotFound error of a write to that bucket
\* included, takes a name out; and no bucket-create request is issued for a
\* name that is in the set.
CreatedSetGrowsOn201 ==
    [][/\ createBucketExecuted \subseteq createBucketExecuted'
       /\ createBucketExecuted' # createBucketExecuted =>
             /\ pc = "CreateBucket"
             /\ Last(reqs) = Request("create", bucket)
             /\ createBucketExecuted' = createBucketExecuted \cup {bucket}
             /\ \A resp \in CreateResponses :
                   CreateBucketResponse(resp) =>
                      (resp.kind = "resp" /\ resp.status = 201)
       /\ (Len(reqs') > Len(reqs) /\ Last(reqs').kind = "create") =>
             Last(reqs').bucket \notin createBucketExecuted']_vars

\* The write to a recorded bucket ended in BucketNotFound and the bucket is
\* still recorded; the call issued no creation request for it.
CreatedSetWitness ==
    /\ pc = "idle"
    /\ result = "BucketNotFound"
    /\ Last(outcomes).bucket \in createBucketExecuted
    /\ CreatesFor(reqs, Last(outcomes).bucket) = {}
    /\ OrgLookupsFor(reqs, Last(outcomes).bucket) = {}

====
